---- MODULE Spec2Model ----
(***************************************************************************)
(* PaperLens: Sources/Pipeline.py.  One execution of Pipeline.Run, from    *)
(* the Zotero profile fetch to the mail delivery.  Texts are sequences of  *)
(* characters, dictionaries are functions from field names to values,      *)
(* numpy arrays are records of a shape and a list of rows, and floats are  *)
(* fixed-point integers in units of 1/Scale.                               *)
(***************************************************************************)
EXTENDS Integers, Sequences, FiniteSets, TLC

\* ------------------------------------------------------------------ bounds
\* items in the Zotero library
MaxProfile == 2
\* raw records served by all sources together
MaxRaw == 2
\* raw records in the ranking worlds
MaxRanked == 3
\* raw records in the field worlds
MaxFielded == 2
\* raw records in the filter worlds
MaxFiltered == 2
\* largest configured TOP_K
MaxTopK == 3
\* embedder.dimensions
Dim == 2
\* fixed-point unit: the float 1.0 is Scale
Scale == 10

\* ------------------------------------------------------------------ values
\* A Python value held in a dictionary field: None, a str or a float.
None == [t |-> "none", s |-> <<>>, n |-> 0]
Str(s) == [t |-> "str", s |-> s, n |-> 0]
Num(n) == [t |-> "num", s |-> <<>>, n |-> n]

\* Python truthiness of a value: None and "" are falsy.
Truthy(v) == \/ (v.t = "str" /\ v.s # <<>>)
             \/ (v.t = "num" /\ v.n # 0)

\* d.get(f, default)
Get(d, f, default) == IF f \in DOMAIN d THEN d[f] ELSE default

\* x or ""
OrEmpty(v) == IF Truthy(v) THEN v ELSE Str(<<>>)

\* str.strip(): drop leading and trailing whitespace.
RECURSIVE LStrip(_)
LStrip(s) == IF s # <<>> /\ Head(s) = " " THEN LStrip(Tail(s)) ELSE s

RECURSIVE RStrip(_)
RStrip(s) == IF s # <<>> /\ s[Len(s)] = " "
             THEN RStrip(SubSeq(s, 1, Len(s) - 1)) ELSE s

Strip(s) == RStrip(LStrip(s))

\* ------------------------------------------------------------------ numpy
\* Division of fixed-point numbers, rounding towards zero.
TDiv(a, b) == IF a >= 0 THEN a \div b ELSE -((-a) \div b)

\* Floor of the square root.
ISqrt(x) == CHOOSE r \in 0..(Dim * Scale) : r * r <= x /\ (r + 1) * (r + 1) > x

RECURSIVE SumTo(_, _)
SumTo(f, n) == IF n = 0 THEN 0 ELSE f[n] + SumTo(f, n - 1)

RECURSIVE Product(_)
Product(shape) == IF shape = <<>> THEN 1 ELSE Head(shape) * Product(Tail(shape))

\* ndarray.size
Size(a) == Product(a.shape)

\* The shape written the other way round: np.zeros((d, 1)).
ZerosTransposed(d) == [shape |-> <<d, 1>>, rows |-> [i \in 1..d |-> <<0>>]]

\* np.zeros((1, d))
Zeros(d) == [shape |-> <<1, d>>, rows |-> <<[i \in 1..d |-> 0]>>]

\* embeddings.mean(axis = 0, keepdims = True)
Mean(a) ==
    LET n == Len(a.rows)
        d == a.shape[2]
    IN  [shape |-> <<1, d>>,
         rows |-> <<[j \in 1..d |-> TDiv(SumTo([i \in 1..n |-> a.rows[i][j]], n), n)]>>]

\* np.linalg.norm
Norm(a) ==
    LET v == a.rows[1]
    IN  ISqrt(SumTo([j \in 1..Len(v) |-> v[j] * v[j]], Len(v)))

\* personasVecs /= (norm + 1e-9): the epsilon is below the fixed-point
\* unit, so it only decides the zero-norm case, where 0 / 1e-9 = 0.
Normalize(a) ==
    LET nrm == Norm(a)
        v == a.rows[1]
    IN  [a EXCEPT !.rows = <<[j \in 1..Len(v) |->
            IF nrm = 0 THEN 0 ELSE TDiv(v[j] * Scale, nrm)]>>]

\* ------------------------------------------------------------ collaborators
\* Embedder.Encode(texts): an array of shape (N, D) whose rows the model
\* chooses; for no texts an empty array, flat or two-dimensional.
EncodeResults(emb, texts) ==
    IF texts = <<>>
    THEN {[shape |-> <<0>>, rows |-> <<>>],
          [shape |-> <<0, emb.dimensions>>, rows |-> <<>>]}
    ELSE {[shape |-> <<Len(texts), emb.dimensions>>, rows |-> r] :
            r \in [1..Len(texts) -> emb.range]}

\* Aggregator.fetch_all: the outputs of the sources, concatenated in the
\* configured order.
RECURSIVE Concat(_)
Concat(ss) == IF ss = <<>> THEN <<>> ELSE Head(ss) \o Concat(Tail(ss))

\* ------------------------------------------------------------ Pipeline.Run
\* The sources configured by Pipeline.__init__: ArxivSource, CrossrefSource.
NumSources == 2

\* The profile loop: one text per library item that has a data field with
\* both title and abstractNote.
RECURSIVE ProfileTexts(_, _)
ProfileTexts(papers, done) ==
    IF papers = <<>> THEN done
    ELSE LET paper == Head(papers)
         IN  IF "data" \in DOMAIN paper
                /\ "title" \in DOMAIN paper["data"]
                /\ "abstractNote" \in DOMAIN paper["data"]
             THEN ProfileTexts(Tail(papers),
                    Append(done, [index |-> Len(done) + 1,
                                  title |-> paper["data"]["title"],
                                  abstract |-> RStrip(paper["data"]["abstractNote"])]))
             ELSE ProfileTexts(Tail(papers), done)

\* The profile vector: zeros for no embeddings, else the normalised mean.
ProfileVector(embs, dims) ==
    IF Size(embs) = 0 THEN Zeros(dims) ELSE Normalize(Mean(embs))

\* The test with or in place of and.
DroppedEither(rawPaper) ==
    LET title == OrEmpty(Get(rawPaper, "title", Str(<<>>)))
        abstractNote == OrEmpty(Get(rawPaper, "abstract", Str(<<>>)))
    IN  Strip(title.s) = <<>> \/ Strip(abstractNote.s) = <<>>

\* The record is skipped when title and abstract are both blank.
Dropped(rawPaper) ==
    LET title == OrEmpty(Get(rawPaper, "title", Str(<<>>)))
        abstractNote == OrEmpty(Get(rawPaper, "abstract", Str(<<>>)))
    IN  Strip(title.s) = <<>> /\ Strip(abstractNote.s) = <<>>

\* The candidate loop: the kept records and their texts, side by side.
RECURSIVE FilterCandidates(_, _)
FilterCandidates(raw, acc) ==
    IF raw = <<>> THEN acc
    ELSE LET rawPaper == Head(raw)
             title == OrEmpty(Get(rawPaper, "title", Str(<<>>)))
             abstractNote == OrEmpty(Get(rawPaper, "abstract", Str(<<>>)))
         IN  IF Dropped(rawPaper)
             THEN FilterCandidates(Tail(raw), acc)
             ELSE FilterCandidates(Tail(raw),
                    [candidates |-> Append(acc.candidates, rawPaper),
                     texts |-> Append(acc.texts,
                        [index |-> Len(acc.candidates) + 1,
                         title |-> title.s,
                         abstract |-> abstractNote.s])])

\* (embeddings @ personasVecs.T).ravel(): one dot product per row; numpy
\* raises when the inner dimensions differ.
MatMul(embs, vecs) ==
    LET d == vecs.shape[2]
        inner == embs.shape[Len(embs.shape)]
    IN  IF inner # d THEN [ok |-> FALSE, v |-> <<>>]
        ELSE [ok |-> TRUE,
              v |-> [i \in 1..Len(embs.rows) |->
                       TDiv(SumTo([j \in 1..d |-> embs.rows[i][j] * vecs.rows[1][j]], d),
                            Scale)]]

\* The product taken whatever the size of the array.
SimilarityUnguarded(embs, vecs) == MatMul(embs, vecs)

\* paperSimilarity: the product, or an empty vector for an empty array.
Similarity(embs, vecs) ==
    IF Size(embs) # 0 THEN MatMul(embs, vecs) ELSE [ok |-> TRUE, v |-> <<>>]

\* np.argsort: an index order that sorts the values ascending. The default
\* sort is not stable, so equal values come in any order.
ArgsortResults(sim) ==
    {p \in [1..Len(sim) -> 1..Len(sim)] :
        /\ \A i, j \in 1..Len(sim) : i # j => p[i] # p[j]
        /\ \A i \in 1..(Len(sim) - 1) : sim[p[i]] <= sim[p[i + 1]]}

\* order[::-1]
Reverse(s) == [i \in 1..Len(s) |-> s[Len(s) + 1 - i]]

\* The cut taken from the wrong end: order[-k:].
SliceTail(s, k) ==
    LET n == IF k > 0 THEN (IF k < Len(s) THEN k ELSE Len(s))
             ELSE (IF k = 0 THEN Len(s) ELSE 0)
    IN  SubSeq(s, Len(s) - n + 1, Len(s))

\* order[:k], with Python's meaning of a negative k.
Slice(s, k) ==
    LET stop == IF k >= 0 THEN (IF k < Len(s) THEN k ELSE Len(s))
                ELSE (IF Len(s) + k > 0 THEN Len(s) + k ELSE 0)
    IN  SubSeq(s, 1, stop)

\* The order cut without being reversed.
RankOrderAscending(order, k) == Slice(order, k)

\* rankOrder for one outcome of argsort.
RankOrder(order, k) == Slice(Reverse(order), k)

\* The recommendation without the abstract default.
MakeRecommendationNoDefault(candidate, score) ==
    [f \in DOMAIN candidate \cup {"Similarity"} |->
        IF f = "Similarity" THEN Num(score) ELSE candidate[f]]

\* One recommendation: a copy of the candidate, Similarity set to the
\* score, abstract defaulted to "".
MakeRecommendation(candidate, score) ==
    LET copy == [f \in DOMAIN candidate \cup {"Similarity"} |->
                    IF f = "Similarity" THEN Num(score) ELSE candidate[f]]
    IN  IF "abstract" \in DOMAIN copy THEN copy
        ELSE [f \in DOMAIN copy \cup {"abstract"} |->
                IF f = "abstract" THEN Str(<<>>) ELSE copy[f]]

Recommendations(candidates, sim, order) ==
    [i \in 1..Len(order) |-> MakeRecommendation(candidates[order[i]], sim[order[i]])]

\* ------------------------------------------------------------------ state
VARIABLES
    config,               \* self.config: TOP_K
    embedder,             \* self.embedder: dimensions and the vectors it emits
    zotero,               \* the library the Zotero API serves
    sources,              \* what each configured source serves for the day
    pc,                   \* the stage Run is about to enter
    error,                \* the exception that left Run, or "none"
    failedSource,         \* the source whose fetch raised, or 0
    trace,                \* the stages entered so far, in order
    zoteroPapers, personasTexts, personasVecs,
    rawDataset, paperCandidates, paperTexts, embeddings,
    paperSimilarity, rankOrder, paperRecommendations,
    markdown,             \* what Render returned
    outbox                \* what SendMarkdown delivered

vars == <<config, embedder, zotero, sources, pc, error, failedSource, trace,
          zoteroPapers, personasTexts, personasVecs, rawDataset,
          paperCandidates, paperTexts, embeddings, paperSimilarity, rankOrder,
          paperRecommendations, markdown, outbox>>

env == <<config, embedder, zotero, sources>>

StageOrder == <<"profile", "vectorize", "aggregate", "filter", "rank", "render", "send">>

NoArray == [shape |-> <<0>>, rows |-> <<>>]

SeqsUpTo(S, n) == UNION {[1..k -> S] : k \in 0..n}

UnitVec(k) == [j \in 1..Dim |-> IF j = k THEN Scale ELSE 0]
NegVec(v) == [j \in 1..Dim |-> -v[j]]

\* Library items: no data field, data without abstractNote, data with both.
ZoteroItems ==
    {<<>>,
     [f \in {"data"} |-> [g \in {"title"} |-> <<"a">>]],
     [f \in {"data"} |-> [g \in {"title", "abstractNote"} |-> <<"a">>]]}

FullItem == [f \in {"data"} |-> [g \in {"title", "abstractNote"} |-> <<"a", " ">>]]

\* A raw record, given the value of each field (Absent: no such field).
Absent == [t |-> "absent", s |-> <<>>, n |-> 0]
Paper(fv) == [f \in {g \in DOMAIN fv : fv[g] # Absent} |-> fv[f]]

PlainPaper == Paper([title |-> Str(<<"a">>), abstract |-> Str(<<"a">>)])

\* Construction and the start of Run, for given sets of worlds.
InitWith(Libraries, Feeds, Range, Ks) ==
    /\ config \in [TOP_K : Ks]
    /\ embedder = [dimensions |-> Dim, range |-> Range]
    /\ zotero \in Libraries
    /\ sources \in Feeds
    /\ pc = "profile"
    /\ error = "none"
    /\ failedSource = 0
    /\ trace = <<>>
    /\ zoteroPapers = <<>>
    /\ personasTexts = <<>>
    /\ personasVecs = NoArray
    /\ rawDataset = <<>>
    /\ paperCandidates = <<>>
    /\ paperTexts = <<>>
    /\ embeddings = NoArray
    /\ paperSimilarity = <<>>
    /\ rankOrder = <<>>
    /\ paperRecommendations = <<>>
    /\ markdown = <<>>
    /\ outbox = <<>>

\* Feeds of at most MaxRaw records over the sources, drawn from Papers.
FeedsOver(Papers) ==
    {ss \in [1..NumSources -> SeqsUpTo(Papers, MaxRaw)] : Len(Concat(ss)) <= MaxRaw}

\* At most n records, all served by the first source.
FeedsFirst(Papers, n) ==
    {[i \in 1..NumSources |-> IF i = 1 THEN a ELSE <<>>] : a \in SeqsUpTo(Papers, n)}

Enter(stage) == trace' = Append(trace, stage)

Raise(stage, exc) ==
    /\ Enter(stage)
    /\ pc' = "raised"
    /\ error' = exc

\* Lines 41-56: the profile request and the profile loop.
FetchProfile ==
    /\ pc = "profile"
    /\ Enter("profile")
    /\ zoteroPapers' = zotero
    /\ personasTexts' = ProfileTexts(zotero, <<>>)
    /\ pc' = "vectorize"
    /\ UNCHANGED <<env, error, failedSource, personasVecs, rawDataset,
                   paperCandidates, paperTexts, embeddings, paperSimilarity,
                   rankOrder, paperRecommendations, markdown, outbox>>

\* requests.get or .json() raises.
FetchProfileRaises ==
    /\ pc = "profile"
    /\ Raise("profile", "ProfileError")
    /\ UNCHANGED <<env, failedSource, zoteroPapers, personasTexts, personasVecs,
                   rawDataset, paperCandidates, paperTexts, embeddings,
                   paperSimilarity, rankOrder, paperRecommendations, markdown,
                   outbox>>

\* Lines 60-65: embed the profile texts and build the profile vector.
VectorizeProfile ==
    /\ pc = "vectorize"
    /\ Enter("vectorize")
    /\ \E e \in EncodeResults(embedder, personasTexts) :
          /\ embeddings' = e
          /\ personasVecs' = ProfileVector(e, embedder.dimensions)
    /\ pc' = "aggregate"
    /\ UNCHANGED <<env, error, failedSource, zoteroPapers, personasTexts,
                   rawDataset, paperCandidates, paperTexts, paperSimilarity,
                   rankOrder, paperRecommendations, markdown, outbox>>

\* Encode raises on the profile texts.
VectorizeProfileRaises ==
    /\ pc = "vectorize"
    /\ personasTexts # <<>>
    /\ Raise("vectorize", "EmbedError")
    /\ UNCHANGED <<env, failedSource, zoteroPapers, personasTexts, personasVecs,
                   rawDataset, paperCandidates, paperTexts, embeddings,
                   paperSimilarity, rankOrder, paperRecommendations, markdown,
                   outbox>>

\* Line 69: every source answers.
FetchAll ==
    /\ pc = "aggregate"
    /\ Enter("aggregate")
    /\ rawDataset' = Concat(sources)
    /\ pc' = "filter"
    /\ UNCHANGED <<env, error, failedSource, zoteroPapers, personasTexts,
                   personasVecs, paperCandidates, paperTexts, embeddings,
                   paperSimilarity, rankOrder, paperRecommendations, markdown,
                   outbox>>

\* Line 69: a source raises; fetch_all does not catch it and neither does Run.
FetchAllRaises ==
    /\ pc = "aggregate"
    /\ \E i \in 1..NumSources : failedSource' = i
    /\ Raise("aggregate", "FetcherError")
    /\ UNCHANGED <<env, zoteroPapers, personasTexts, personasVecs, rawDataset,
                   paperCandidates, paperTexts, embeddings, paperSimilarity,
                   rankOrder, paperRecommendations, markdown, outbox>>

\* Lines 71-82: the candidate filter.
Filter ==
    /\ pc = "filter"
    /\ Enter("filter")
    /\ LET kept == FilterCandidates(rawDataset, [candidates |-> <<>>, texts |-> <<>>])
       IN  /\ paperCandidates' = kept.candidates
           /\ paperTexts' = kept.texts
    /\ pc' = "rank"
    /\ UNCHANGED <<env, error, failedSource, zoteroPapers, personasTexts,
                   personasVecs, rawDataset, embeddings, paperSimilarity,
                   rankOrder, paperRecommendations, markdown, outbox>>

\* Lines 84-95: embed the candidates, score, sort, cut, build the list.
Rank ==
    /\ pc = "rank"
    /\ Enter("rank")
    /\ \E e \in EncodeResults(embedder, paperTexts) :
          LET sim == Similarity(e, personasVecs)
          IN  /\ embeddings' = e
              /\ IF sim.ok
                 THEN \E order \in ArgsortResults(sim.v) :
                        /\ paperSimilarity' = sim.v
                        /\ rankOrder' = RankOrder(order, config.TOP_K)
                        /\ paperRecommendations' =
                              Recommendations(paperCandidates, sim.v, rankOrder')
                        /\ pc' = "render"
                        /\ error' = error
                 ELSE /\ pc' = "raised"
                      /\ error' = "ShapeError"
                      /\ UNCHANGED <<paperSimilarity, rankOrder, paperRecommendations>>
    /\ UNCHANGED <<env, failedSource, zoteroPapers, personasTexts, personasVecs,
                   rawDataset, paperCandidates, paperTexts, markdown, outbox>>

\* Encode raises on the candidate texts.
RankRaises ==
    /\ pc = "rank"
    /\ paperTexts # <<>>
    /\ Raise("rank", "EmbedError")
    /\ UNCHANGED <<env, failedSource, zoteroPapers, personasTexts, personasVecs,
                   rawDataset, paperCandidates, paperTexts, embeddings,
                   paperSimilarity, rankOrder, paperRecommendations, markdown,
                   outbox>>

\* Line 103: Render returns the report of the recommendations.
Render ==
    /\ pc = "render"
    /\ Enter("render")
    /\ markdown' = <<paperRecommendations>>
    /\ pc' = "send"
    /\ UNCHANGED <<env, error, failedSource, zoteroPapers, personasTexts,
                   personasVecs, rawDataset, paperCandidates, paperTexts,
                   embeddings, paperSimilarity, rankOrder, paperRecommendations,
                   outbox>>

\* Render's exception caught and logged, the run going on to the mail.
RenderRaisesSwallowed ==
    /\ pc = "render"
    /\ Enter("render")
    /\ error' = "RenderError"
    /\ pc' = "send"
    /\ UNCHANGED <<env, failedSource, zoteroPapers, personasTexts, personasVecs,
                   rawDataset, paperCandidates, paperTexts, embeddings,
                   paperSimilarity, rankOrder, paperRecommendations, markdown,
                   outbox>>

\* Line 103: Render raises.
RenderRaises ==
    /\ pc = "render"
    /\ Raise("render", "RenderError")
    /\ UNCHANGED <<env, failedSource, zoteroPapers, personasTexts, personasVecs,
                   rawDataset, paperCandidates, paperTexts, embeddings,
                   paperSimilarity, rankOrder, paperRecommendations, markdown,
                   outbox>>

\* Line 104: SendMarkdown delivers the report; Run returns.
Send ==
    /\ pc = "send"
    /\ Enter("send")
    /\ outbox' = Append(outbox, markdown)
    /\ pc' = "done"
    /\ UNCHANGED <<env, error, failedSource, zoteroPapers, personasTexts,
                   personasVecs, rawDataset, paperCandidates, paperTexts,
                   embeddings, paperSimilarity, rankOrder, paperRecommendations,
                   markdown>>

\* Line 104: SendMarkdown raises.
SendRaises ==
    /\ pc = "send"
    /\ Raise("send", "MailError")
    /\ UNCHANGED <<env, failedSource, zoteroPapers, personasTexts, personasVecs,
                   rawDataset, paperCandidates, paperTexts, embeddings,
                   paperSimilarity, rankOrder, paperRecommendations, markdown,
                   outbox>>

Next ==
    \/ FetchProfile
    \/ FetchProfileRaises
    \/ VectorizeProfile
    \/ VectorizeProfileRaises
    \/ FetchAll
    \/ FetchAllRaises
    \/ Filter
    \/ Rank
    \/ RankRaises
    \/ Render
    \/ RenderRaises
    \/ Send
    \/ SendRaises

\* ------------------------------------------------------------ specifications
TopKs == (0 - 1)..MaxTopK

\* The whole run over small worlds of every kind.
Init ==
    InitWith(SeqsUpTo(ZoteroItems, MaxProfile),
             FeedsOver({PlainPaper, Paper([title |-> Str(<<" ">>)])}),
             {UnitVec(1), UnitVec(Dim)},
             TopKs)

Spec == Init /\ [][Next]_vars

\* Ranking: plain records, embeddings that give equal, distinct, zero and
\* negative scores, every TOP_K.
InitRank ==
    InitWith(SeqsUpTo({FullItem}, MaxProfile),
             FeedsFirst({PlainPaper}, MaxRanked),
             {UnitVec(1), NegVec(UnitVec(1)), UnitVec(Dim)},
             TopKs)

SpecRank == InitRank /\ [][Next]_vars

\* Fields: records with and without abstract, Similarity and a
\* source-specific field.
FieldPapers ==
    {Paper([title |-> Str(<<"a">>), abstract |-> a, Similarity |-> sm, doi |-> d]) :
        a \in {Absent, None, Str(<<"a">>)},
        sm \in {Absent, Str(<<"a">>)},
        d \in {Absent, Str(<<"a">>)}}

InitFields ==
    InitWith({<<>>, <<FullItem>>}, FeedsFirst(FieldPapers, MaxFielded), {UnitVec(1)}, {2})

SpecFields == InitFields /\ [][Next]_vars

\* Filter: every kind of title and abstract.
FieldValues == {Absent, None, Str(<<>>), Str(<<" ">>), Str(<<" ", "a", " ">>)}

FilterPapers ==
    {Paper([title |-> t, abstract |-> a]) : t \in FieldValues, a \in FieldValues}

InitFilter ==
    InitWith({<<>>, <<FullItem>>}, FeedsFirst(FilterPapers, MaxFiltered), {UnitVec(1)}, {1})

SpecFilter == InitFilter /\ [][Next]_vars

\* ------------------------------------------------------------------ claims
Entered(stage) == \E i \in 1..Len(trace) : trace[i] = stage

\* The profile vector has been built.
Vectorized == pc = "aggregate" \/ Entered("aggregate")

\* The candidate filter has run.
Filtered == pc = "rank" \/ Entered("rank")

\* The ranking step has returned its list.
Ranked == pc = "render" \/ Entered("render")

Score(i) == paperRecommendations[i]["Similarity"].n

\* The kept candidate that recommendation i was built from.
Origin(i) == paperCandidates[rankOrder[i]]

Listed == {rankOrder[i] : i \in 1..Len(rankOrder)}

\* C1: for TOP_K = K >= 0 and n kept candidates the recommendation list
\* has exactly min(K, n) elements and its Similarity values never increase
\* from one element to the next.
C1_TopKLengthAndOrder ==
    (Ranked /\ config.TOP_K >= 0) =>
        /\ Len(paperRecommendations) =
              (IF config.TOP_K < Len(paperCandidates)
               THEN config.TOP_K ELSE Len(paperCandidates))
        /\ \A i \in 1..(Len(paperRecommendations) - 1) : Score(i) >= Score(i + 1)

\* A list cut by K, holding two different scores.
C1_Witness ==
    /\ Ranked
    /\ config.TOP_K = 2
    /\ Len(paperCandidates) = 3
    /\ Len(paperRecommendations) = 2
    /\ Score(1) > Score(2)

\* C2: the list holds the best candidates, each at most once: every
\* recommendation scores at least as high as every kept candidate that is
\* not in the list, and carries the score of the candidate it came from.
C2_TopKAreTheHighest ==
    Ranked =>
        /\ Len(paperRecommendations) = Len(rankOrder)
        /\ \A i, j \in 1..Len(rankOrder) : i # j => rankOrder[i] # rankOrder[j]
        /\ \A i \in 1..Len(rankOrder) :
              /\ rankOrder[i] \in 1..Len(paperCandidates)
              /\ Score(i) = paperSimilarity[rankOrder[i]]
              /\ \A c \in (1..Len(paperCandidates)) \ Listed :
                    Score(i) >= paperSimilarity[c]

\* A candidate is left out and scores strictly below a listed one.
C2_Witness ==
    /\ Ranked
    /\ Len(paperRecommendations) = 2
    /\ \E c \in (1..Len(paperCandidates)) \ Listed : paperSimilarity[c] < Score(2)

\* C3: for a TOP_K that is a count, equal scores keep the aggregation
\* order: of two listed candidates
\* with the same score the earlier one comes first, and of a listed and an
\* unlisted candidate with the same score the listed one is the earlier.
C3_TiesKeepAggregationOrder ==
    (Ranked /\ config.TOP_K >= 0) =>
        /\ \A i, j \in 1..Len(rankOrder) :
              (i < j /\ paperSimilarity[rankOrder[i]] = paperSimilarity[rankOrder[j]])
                  => rankOrder[i] < rankOrder[j]
        /\ \A c \in Listed : \A o \in (1..Len(paperCandidates)) \ Listed :
              paperSimilarity[c] = paperSimilarity[o] => c < o

\* C4 as stated: a recommendation has the fields of its candidate plus
\* Similarity and no other.
C4_OnlySimilarityAdded ==
    Ranked => \A i \in 1..Len(paperRecommendations) :
        DOMAIN paperRecommendations[i] = DOMAIN Origin(i) \cup {"Similarity"}

\* C4 amended: a recommendation has the fields of its candidate plus
\* Similarity plus abstract; an abstract the candidate lacks is the empty
\* string.
C4_SimilarityAndAbstractAdded ==
    Ranked => \A i \in 1..Len(paperRecommendations) :
        /\ DOMAIN paperRecommendations[i] =
              DOMAIN Origin(i) \cup {"Similarity", "abstract"}
        /\ "abstract" \notin DOMAIN Origin(i) =>
              paperRecommendations[i]["abstract"] = Str(<<>>)

\* A candidate without abstract and one with abstract are both listed.
C4_Witness ==
    /\ Ranked
    /\ \E i, j \in 1..Len(paperRecommendations) :
          /\ "abstract" \notin DOMAIN Origin(i)
          /\ "abstract" \in DOMAIN Origin(j)
          /\ "doi" \in DOMAIN Origin(j)

\* C5: every field of the candidate, Similarity included, has the same
\* value in the recommendation.
C5_NoFieldOverwritten ==
    Ranked => \A i \in 1..Len(paperRecommendations) :
        \A f \in DOMAIN Origin(i) : paperRecommendations[i][f] = Origin(i)[f]

\* C6: the kept records are exactly the raw records whose title or
\* abstract is not blank (missing, null, empty or whitespace), in the input
\* order, and text i is the text of kept record i.
BlankField(r, f) ==
    \/ f \notin DOMAIN r
    \/ r[f].t = "none"
    \/ (r[f].t = "str" /\ \A i \in 1..Len(r[f].s) : r[f].s[i] = " ")

Kept(r) == ~(BlankField(r, "title") /\ BlankField(r, "abstract"))

TextOf(r, f) == IF f \in DOMAIN r /\ r[f].t = "str" THEN r[f].s ELSE <<>>

C6_FilterDropsBlankKeepsOrder ==
    Filtered =>
        /\ paperCandidates = SelectSeq(rawDataset, Kept)
        /\ Len(paperTexts) = Len(paperCandidates)
        /\ \A i \in 1..Len(paperTexts) :
              /\ paperTexts[i].index = i
              /\ paperTexts[i].title = TextOf(paperCandidates[i], "title")
              /\ paperTexts[i].abstract = TextOf(paperCandidates[i], "abstract")

\* A whitespace-only record is dropped ahead of a kept record that has a
\* title and an empty abstract.
C6_Witness ==
    /\ Filtered
    /\ Len(rawDataset) = 2
    /\ rawDataset[1] = Paper([title |-> Str(<<" ">>), abstract |-> None])
    /\ rawDataset[2] = Paper([title |-> Str(<<" ", "a", " ">>), abstract |-> Str(<<>>)])
    /\ paperCandidates = <<rawDataset[2]>>

\* C7: the failure of one source does not end the run.
C7_FetcherFailureDoesNotAbort ==
    failedSource # 0 => ~(pc = "raised" /\ error = "FetcherError")

\* C8: with no kept candidate the ranking step ends without an error and
\* with an empty list, Render is next and gets the empty list, and
\* SendMarkdown delivers what Render returned.
C8_EmptyCandidatesRankToEmpty ==
    (Entered("rank") /\ paperCandidates = <<>>) =>
        /\ trace[Len(trace)] = "rank" => (pc = "render" /\ error = "none")
        /\ paperSimilarity = <<>>
        /\ paperRecommendations = <<>>
        /\ pc \in {"send", "done"} => markdown = <<paperRecommendations>>
        /\ pc = "done" => outbox = <<markdown>>

\* Every fetched record was dropped, the profile is empty, the mail is out.
C8_Witness ==
    /\ pc = "done"
    /\ rawDataset # <<>>
    /\ paperCandidates = <<>>
    /\ personasTexts = <<>>
    /\ config.TOP_K = MaxTopK
    /\ outbox = << <<paperRecommendations>> >>

\* C9: when no library item has a data field with title and abstractNote,
\* the profile vector is one row of D zeros, and every kept candidate
\* scores 0.
NoProfileItem ==
    \A i \in 1..Len(zotero) :
        ~("data" \in DOMAIN zotero[i]
          /\ "title" \in DOMAIN zotero[i]["data"]
          /\ "abstractNote" \in DOMAIN zotero[i]["data"])

C9_EmptyProfileZeroVector ==
    (Vectorized /\ NoProfileItem) =>
        /\ personasVecs.shape = <<1, embedder.dimensions>>
        /\ Len(personasVecs.rows) = 1
        /\ Len(personasVecs.rows[1]) = embedder.dimensions
        /\ \A j \in 1..embedder.dimensions : personasVecs.rows[1][j] = 0
        /\ Ranked =>
              /\ Len(paperSimilarity) = Len(paperCandidates)
              /\ \A i \in 1..Len(paperSimilarity) : paperSimilarity[i] = 0
              /\ \A i \in 1..Len(paperRecommendations) : Score(i) = 0

\* The library has items, none usable, and a kept candidate is listed.
C9_Witness ==
    /\ Ranked
    /\ zotero # <<>>
    /\ NoProfileItem
    /\ paperRecommendations # <<>>

\* C10: the stages are entered in the fixed order, each at most once; an
\* exception ends the run at once and reaches the caller, so nothing is
\* mailed after a failure; Render runs on the ranking of the whole
\* aggregated set and SendMarkdown on what Render returned.
IsPrefix(s, t) == Len(s) <= Len(t) /\ \A i \in 1..Len(s) : s[i] = t[i]

C10_StagesInOrder ==
    /\ IsPrefix(trace, StageOrder)
    /\ pc \notin {"done", "raised"} => pc = StageOrder[Len(trace) + 1]
    /\ error # "none" <=> pc = "raised"
    /\ pc = "raised" => outbox = <<>>
    /\ pc = "done" <=> outbox # <<>>
    /\ Entered("render") =>
          /\ rawDataset = Concat(sources)
          /\ Len(paperSimilarity) = Len(paperCandidates)
          /\ Len(paperCandidates) <= Len(rawDataset)
    /\ Entered("send") => (error \in {"none", "MailError"}
                           /\ markdown = <<paperRecommendations>>)
    /\ pc = "done" => (trace = StageOrder /\ outbox = <<markdown>>)

\* A run that mailed a list of recommendations from both sources.
C10_Witness ==
    /\ pc = "done"
    /\ trace = StageOrder
    /\ sources[1] # <<>>
    /\ sources[2] # <<>>
    /\ Len(paperRecommendations) = 1

====
